---- MODULE Spec2Model ----
(***************************************************************************)
(* pilot - a task runner.  Model of the task execution engine of           *)
(* src/src/main.rs: cli_run_task / run_task (recursive step walk, one      *)
(* thread per parallel branch, join of all threads), run_shell (color      *)
(* slot, label-width watermark, line-by-line output), sanitize_string and  *)
(* the two process-wide atomics INDEX and PADDING.                         *)
(*                                                                         *)
(* Every invocation of cli_run_task and every branch thread is a frame;    *)
(* frames are named by their path in the call tree.  A frame's field st    *)
(* is its position in the code.  An action is one step of one thread       *)
(* between two operations that other threads can observe (a println, an    *)
(* atomic operation, a thread spawn or join, the process exit).            *)
(*                                                                         *)
(* Spec is the run of the process from main on: load_pilotfile, the        *)
(* listing of the tasks or the requested tasks one after another.          *)
(* FairSpec is Spec with fair scheduling, for the runs without -r and -t.  *)
(* SanSpec follows one call of sanitize_string iteration by iteration, for *)
(* every input line up to MaxLen characters; SanFairSpec lets the loop go  *)
(* on while it can.  In Spec the function is applied in one step.          *)
(***************************************************************************)
EXTENDS Integers, Sequences, FiniteSets, TLC

\* ------------------------------------------------------------------ bounds
\* most lines one shell command writes before it ends
MaxLines == 1
\* the longest call path that is followed (the length of a frame id); a task
\* that invokes itself is followed up to this depth
MaxDepth == 4

\* ------------------------------------------------------- program constants
ColorBase == 31
ColorCount == 7
NOT_VALID == "This is not a valid Pilotfile"

\* Option values
None == << >>
Some(v) == << v >>

\* ------------------------------------------------------------- Yaml values
Str(s) == [t |-> "str", s |-> s]
Bool(b) == [t |-> "bool", b |-> b]
Vec(l) == [t |-> "vec", l |-> l]
\* a one-entry hash: a step, or a branch of a parallel step
Hash(k, v) == [t |-> "hash", key |-> k, val |-> v]
\* an entry of the top-level hash of the Pilotfile
Entry(name, body) == [key |-> Str(name), val |-> body]

is_str(y) == y.t = "str"
is_bool(y) == y.t = "bool"
is_vec(y) == y.t = "vec"
is_hash(y) == y.t = "hash"

Shell(c) == Hash(Str("shell"), Str(c))
TaskRef(n) == Hash(Str("task"), Str(n))
Parallel(bs) == Hash(Str("parallel"), Vec(bs))
SetRaw(b) == Hash(Str("raw"), Bool(b))
Description(d) == Hash(Str("description"), Str(d))

\* The task file of the runs (the tests' Pilotfile, extended with
\* tasks that reference a missing task, carry an unknown key or a value of
\* the wrong type, or invoke themselves).
Pilotfile ==
  << Entry("build", Vec(<< Description("build stuff"), Shell("echo build") >>)),
     Entry("cs", Vec(<< Shell("echo c1"), Shell("echo c2") >>)),
     Entry("run", Vec(<< Parallel(<< TaskRef("cs"), Shell("echo server") >>),
                         TaskRef("build") >>)),
     Entry("raw-explicit", Vec(<< SetRaw(TRUE), Shell("cat"),
                                  TaskRef("not-raw-explicit"), Shell("cat") >>)),
     Entry("not-raw-explicit", Vec(<< SetRaw(FALSE), Shell("echo not raw") >>)),
     Entry("forks", Vec(<< Parallel(<< SetRaw(TRUE), TaskRef("nope"),
                                       Shell("echo forks") >>),
                           Shell("echo after") >>)),
     Entry("oops", Vec(<< Shell("echo oops"), TaskRef("nope"), Shell("echo never") >>)),
     Entry("unk", Vec(<< Hash(Str("bogus"), Str("x")) >>)),
     Entry("bad", Vec(<< Hash(Str("shell"), Bool(TRUE)) >>)),
     Entry("badfork", Vec(<< Parallel(<< Shell("echo one"), Str("two") >>) >>)),
     Entry("loop", Vec(<< TaskRef("loop") >>)) >>

\* the task names on the command lines of the runs ("nope" is in
\* no Pilotfile entry)
CommandLines ==
  { << >>, << "run" >>, << "raw-explicit" >>, << "forks" >>, << "oops" >>,
    << "unk" >>, << "bad" >>, << "badfork" >>, << "nope" >>, << "loop" >>,
    << "not-raw-explicit", "build" >>, << "run", "cs" >>, << "oops", "build" >> }
\* the quiet sets a run may be given
QuietSets == {{}, {"cs"}}

\* --------------------------------------------------------------- sanitizer
ESC == "ESC"
\* a character outside ASCII; its UTF-8 encoding has two bytes
EAcute == "e-acute"
Digits == {"0", "1", "2", "3", "4", "5", "6", "7", "8", "9"}
\* the characters the lookahead of do_remove steps over
IsCsi(c) == c = "[" \/ c = ";" \/ c \in Digits

\* the number of bytes of a character in the String
Width(c) == IF c = EAcute THEN 2 ELSE 1

\* lines are sequences of characters; positions i are 0-based as in the code
Drop(line, k) == SubSeq(line, k + 1, Len(line))
Take(line, k) == SubSeq(line, 1, k)

\* the 0-based positions after i that are not '[', ';' or a digit
Stops(i, line) == {j \in (i + 1)..(Len(line) - 1) : ~IsCsi(line[j + 1])}
FirstStop(i, line) == CHOOSE j \in Stops(i, line) : \A k \in Stops(i, line) : j <= k

\* line.get(i..(i + 1)): the one-byte character at byte i, or None at the end
\* of the line and at a character of more bytes.  The loop reaches byte i
\* over one-byte characters only, so that i is a character position as well.
get(line, i) ==
  IF i < Len(line) /\ Width(line[i + 1]) = 1 THEN Some(line[i + 1]) ELSE None

\* the slice line[(i + removals)..] counts one byte for each character that
\* the lookahead took; it panics inside a character of more bytes
SliceOk(j, line) == Width(line[j + 1]) = 1

\* lines 72-75: the character that ends a coloring sequence
no_coloring(c) == FALSE

coloring(c) == c = "m"

\* lines 94-96: line.remove(i), removals times
remove_once(line, i, removals) == Take(line, i) \o Drop(line, i + 1)

remove_at(line, i, removals) == Take(line, i) \o Drop(line, i + removals)

do_remove(i, c, line) ==
  IF c # ESC
    THEN [removed |-> FALSE, line |-> line, panic |-> FALSE]
    ELSE IF Stops(i, line) = {}
      \* the lookahead ran to the end of the line: removals is 1 + the number
      \* of characters behind i
      THEN [removed |-> TRUE, line |-> remove_at(line, i, Len(line) - i),
            panic |-> FALSE]
      ELSE LET j == FirstStop(i, line) IN
           IF coloring(line[j + 1])
             THEN [removed |-> FALSE, line |-> line, panic |-> FALSE]
             \* removals = j - i + 1; the line becomes line[i + removals ..]
             ELSE IF SliceOk(j, line)
               THEN [removed |-> TRUE, line |-> Drop(line, j + 1), panic |-> FALSE]
               ELSE [removed |-> FALSE, line |-> line, panic |-> TRUE]

\* the while loop of sanitize_string from index i on: the line it returns, or
\* the line at the panic
\* lines 104-108: the index after an iteration of the loop
same_index(removed, i) == IF removed THEN 0 ELSE i

next_index(removed, i) == IF removed THEN 0 ELSE i + 1

RECURSIVE scan(_, _)
scan(line, i) ==
  IF get(line, i) = None
    THEN [line |-> line, panic |-> FALSE]
    ELSE LET r == do_remove(i, line[i + 1], line) IN
         IF r.panic THEN [line |-> line, panic |-> TRUE]
         ELSE scan(r.line, next_index(r.removed, i))

sanitize_string(line) == scan(line, 0).line
\* the call does not return: the thread of run_shell unwinds
sanitize_panics(line) == scan(line, 0).panic

\* what a shell command may write as one line (one-byte characters:
\* sanitize_string returns)
Lines == { <<ESC, "[", "2", "K", "o", "k">> }

\* ------------------------------------------------------------------- state
VARIABLES
  tasks_to_run,   \* main: the requested task names, in order
  quiet_tasks,    \* main: the names after -q
  raw_flag,       \* main: -r
  timestamp,      \* main: -t
  next_task,      \* main: index of the next element of tasks_to_run
  frames,         \* the live invocations: frame id -> frame
  INDEX,          \* static INDEX: AtomicU32
  PADDING,        \* static PADDING: AtomicUsize
  stdout,         \* the lines printed on standard output, in order
  stderr,         \* the lines printed on standard error, in order
  status,         \* "start", "running", "exit0" or "exit1"
  listing,        \* main: args().nth(1) is None
  pilotfile_at,   \* the directory that holds Pilotfile.yaml: the working
                  \* directory ("cwd"), its parent ("parent") or none
  san_input,      \* sanitize_string: the line it was called with
  san_line,       \* sanitize_string: line
  san_i,          \* sanitize_string: i
  san_st          \* sanitize_string: "loop", "returned" or "panicked"
                  \* ("idle" where the function is applied in one step)

vars == << tasks_to_run, quiet_tasks, raw_flag, timestamp, next_task, frames,
           INDEX, PADDING, stdout, stderr, status, listing, pilotfile_at,
           san_input, san_line, san_i, san_st >>

\* what the process is started with
args == << tasks_to_run, quiet_tasks, raw_flag, timestamp, listing, pilotfile_at >>
\* the locals of a call of sanitize_string that is followed step by step
san == << san_input, san_line, san_i, san_st >>

NoFrames == [f \in {} |-> 0]

\* no call of sanitize_string is followed step by step
SanIdle ==
  /\ san_input = << >>
  /\ san_line = << >>
  /\ san_i = 0
  /\ san_st = "idle"

\* the process at its start
Started ==
  /\ next_task = 1
  /\ frames = NoFrames
  /\ INDEX = 1
  /\ PADDING = 0
  /\ stdout = << >>
  /\ stderr = << >>
  /\ status = "start"

\* the places the working directory may have its Pilotfile.yaml at
Places == {"cwd", "parent", "nowhere"}

Init ==
  /\ \/ /\ listing = FALSE
        /\ tasks_to_run \in CommandLines
        /\ quiet_tasks \in QuietSets
        /\ raw_flag \in BOOLEAN
        /\ timestamp \in BOOLEAN
     \/ /\ listing = TRUE
        /\ tasks_to_run = << >>
        /\ quiet_tasks = {}
        /\ raw_flag = FALSE
        /\ timestamp = FALSE
  /\ pilotfile_at \in Places
  /\ Started
  /\ SanIdle

\* ------------------------------------------------------------------ frames
\* A frame is one invocation of cli_run_task (kind "task") or the closure of
\* one spawned thread (kind "branch", which runs run_task on a single step).
\*   task    task_name: the label of the frame's shell steps
\*   prefix  task_prefix: the breadcrumb
\*   raw     the bool that the frame's run_task calls get as &mut raw
\*   steps   the steps the frame walks; pc the 1-based index of the current one
\*   st      position in the code; n a loop counter (threads spawned or
\*           joined, lines read); color, this_padding: locals of run_shell;
\*           code: the status wait() returned for the frame's last command,
\*           None while the command runs
\*   parent  the frame that waits for this one (<< >> for main)

StackFrame(kind, task, prefix, raw, steps, st, parent) ==
  [kind |-> kind, task |-> task, prefix |-> prefix, raw |-> raw,
   steps |-> steps, pc |-> 1, st |-> st, n |-> 0, color |-> 0,
   this_padding |-> 0, code |-> None, parent |-> parent]

Live == DOMAIN frames
Without(f) == [g \in Live \ {f} |-> frames[g]]

\* task.0.as_str() of the step the frame is at
AtStep(f) == frames[f].st = "step" /\ frames[f].pc <= Len(frames[f].steps)
CurStep(f) == frames[f].steps[frames[f].pc]
CurKey(f) == CurStep(f).key
WellTyped(step) ==
  /\ is_hash(step)
  /\ is_str(step.key)
  /\ step.key.s \in {"shell", "task"} => is_str(step.val)
  /\ step.key.s = "parallel" => is_vec(step.val)
  /\ step.key.s = "raw" => is_bool(step.val)
IsKind(f, k) == AtStep(f) /\ WellTyped(CurStep(f)) /\ CurKey(f).s = k

\* the frame after its current step has completed: the next step of the list,
\* or the end of the thread's closure
Hang(fr) == [fr EXCEPT !.pc = @ + 1, !.st = "step"]

Advance(fr) ==
  [fr EXCEPT !.pc = @ + 1, !.st = IF fr.kind = "branch" THEN "done" ELSE "step"]

\* eprintln!(msg); exit(1)
Fatal(msg) ==
  /\ stderr' = Append(stderr, msg)
  /\ status' = "exit1"

\* or_msg of a Result: the message is followed by the error
FatalErr(msg) == Fatal(msg \o ": " \o "error")

Running == status = "running"

\* a line of stdout: a trace (kind "enter" or "finished", text the whole
\* line), a line printed by run_shell (kind "line": time prefix, color, text
\* the label, pad the number of padding spaces, line the sanitized line) or a
\* line a raw command wrote itself (kind "raw"); f is the frame it comes from
Out(kind, f, text) ==
  [kind |-> kind, f |-> f, text |-> text, time |-> "", color |-> 0, pad |-> 0,
   line |-> << >>]

\* lines 172-176
time_prefix == IF timestamp THEN "HH:MM:SS " ELSE ""

EntryTrace(prefix) ==
  IF timestamp THEN "HH:MM:SS > " \o prefix ELSE "> " \o prefix
ExitTrace(prefix) ==
  IF timestamp THEN "HH:MM:SS finished " \o prefix ELSE "finished " \o prefix

\* -------------------------------------------------------------------- main
\* lines 364-368, called at line 375 or 430: read_to_string("Pilotfile.yaml")
\* opens the file of that name in the working directory
Readable(place) == place = "cwd"

load_pilotfile ==
  /\ status = "start"
  /\ IF Readable(pilotfile_at)
       THEN /\ status' = "running"
            /\ UNCHANGED stderr
       ELSE FatalErr("Pilotfile.yaml not found")
  /\ UNCHANGED << san, args, next_task, frames, INDEX, PADDING, stdout >>

\* lines 337-341: the steps of the task that carry a description
descriptions(vec) == SelectSeq(vec, LAMBDA y : is_str(y.key) /\ y.key.s = "description")

\* lines 333-341: the or_msg(NOT_VALID) calls of task_to_string pass
Listable(task) ==
  /\ is_str(task.key)
  /\ is_vec(task.val)
  /\ \A k \in DOMAIN task.val.l : is_hash(task.val.l[k])

\* lines 343-353
task_to_string(task) ==
  LET found == descriptions(task.val.l) IN
    IF Len(found) = 1 /\ is_str(found[1].val)
      THEN task.key.s \o " - " \o found[1].val.s
      ELSE task.key.s

\* the entries cli_list_tasks prints before one stops it
Printable(k) ==
  \A j \in 1..k : Listable(Pilotfile[j]) /\ Len(descriptions(Pilotfile[j].val.l)) <= 1

\* lines 356-362, called at line 431: the header and one line for each task,
\* up to a task that task_to_string ends the process at
cli_list_tasks ==
  /\ Running
  /\ listing
  /\ LET last == CHOOSE k \in 0..Len(Pilotfile) :
                   /\ Printable(k)
                   /\ k < Len(Pilotfile) => ~Printable(k + 1)
         lines == [k \in 1..last |->
                     Out("list", << >>, "\t" \o task_to_string(Pilotfile[k]))]
     IN /\ stdout' = << Out("list", << >>, "Available tasks:") >> \o lines
        /\ IF last = Len(Pilotfile)
             THEN /\ status' = "exit0"
                  /\ UNCHANGED stderr
             ELSE IF Listable(Pilotfile[last + 1])
               THEN Fatal("More than one description for task "
                          \o Pilotfile[last + 1].key.s)
               ELSE Fatal(NOT_VALID)
  /\ UNCHANGED << san, args, next_task, frames, INDEX, PADDING >>

\* main, lines 417-426: the next requested task is run when the previous one
\* has returned
MainRun ==
  /\ Running
  /\ ~listing
  /\ Live = {}
  /\ next_task <= Len(tasks_to_run)
  /\ frames' = (<< next_task >> :>
                  StackFrame("task", tasks_to_run[next_task], tasks_to_run[next_task],
                             raw_flag, << >>, "enter", << >>))
  /\ UNCHANGED << san, args, next_task, INDEX, PADDING, stdout, stderr, status >>

\* main returns after the last requested task
MainExit ==
  /\ Running
  /\ ~listing
  /\ Live = {}
  /\ next_task > Len(tasks_to_run)
  /\ status' = "exit0"
  /\ UNCHANGED << san, args, next_task, frames, INDEX, PADDING, stdout, stderr >>

\* ------------------------------------------------------------ cli_run_task
\* lines 277-281: the entry trace
Enter(f) ==
  /\ Running
  /\ frames[f].st = "enter"
  /\ stdout' = Append(stdout, Out("enter", f, EntryTrace(frames[f].prefix)))
  /\ frames' = [frames EXCEPT ![f].st = "lookup"]
  /\ UNCHANGED << san, args, next_task, INDEX, PADDING, stderr, status >>

\* lines 283-288: the entries of the Pilotfile whose key is the task name
found_tasks(task) ==
  SelectSeq(Pilotfile, LAMBDA e : (IF is_str(e.key) THEN e.key.s ELSE "") = task)

\* a lookup that takes a missing task for a task without steps
LookupLenient(f) ==
  /\ Running
  /\ frames[f].st = "lookup"
  /\ LET found == found_tasks(frames[f].task) IN
     CASE Len(found) = 0 ->
            /\ frames' = [frames EXCEPT ![f].st = "step"]
            /\ UNCHANGED << stderr, status >>
       [] Len(found) = 1 /\ is_vec(found[1].val) ->
            /\ frames' = [frames EXCEPT ![f].steps = found[1].val.l, ![f].st = "step"]
            /\ UNCHANGED << stderr, status >>
       [] Len(found) = 1 /\ ~is_vec(found[1].val) ->
            /\ Fatal(NOT_VALID)
            /\ UNCHANGED frames
       [] OTHER ->
            /\ Fatal("Duplicate task " \o frames[f].task)
            /\ UNCHANGED frames
  /\ UNCHANGED << san, args, next_task, INDEX, PADDING, stdout >>

\* lines 290-296 and 325-328: the task is looked up when it is reached
Lookup(f) ==
  /\ Running
  /\ frames[f].st = "lookup"
  /\ LET found == found_tasks(frames[f].task) IN
     CASE Len(found) = 0 ->
            /\ Fatal("Task " \o frames[f].task \o " not found in Pilotfile")
            /\ UNCHANGED frames
       [] Len(found) = 1 /\ is_vec(found[1].val) ->
            /\ frames' = [frames EXCEPT ![f].steps = found[1].val.l, ![f].st = "step"]
            /\ UNCHANGED << stderr, status >>
       [] Len(found) = 1 /\ ~is_vec(found[1].val) ->
            /\ Fatal(NOT_VALID)
            /\ UNCHANGED frames
       [] OTHER ->
            /\ Fatal("Duplicate task " \o frames[f].task)
            /\ UNCHANGED frames
  /\ UNCHANGED << san, args, next_task, INDEX, PADDING, stdout >>

\* what the caller of a cli_run_task invocation does when it returns: main
\* takes the next requested task, run_task's "task" arm completes the step
Return(f) ==
  IF frames[f].parent = << >>
    THEN /\ frames' = Without(f)
         /\ next_task' = next_task + 1
    ELSE /\ frames' = [g \in Live \ {f} |->
                         IF g = frames[f].parent THEN Advance(frames[g]) ELSE frames[g]]
         /\ UNCHANGED next_task

\* lines 314-323: after the last step, the exit trace; then the return
Finish(f) ==
  /\ Running
  /\ frames[f].kind = "task"
  /\ frames[f].st = "step"
  /\ frames[f].pc > Len(frames[f].steps)
  /\ stdout' = Append(stdout, Out("finished", f, ExitTrace(frames[f].prefix)))
  /\ Return(f)
  /\ UNCHANGED << san, args, INDEX, PADDING, stderr, status >>

\* ---------------------------------------------------------------- run_task
\* lines 297-299, line 204 and the or_msg(NOT_VALID) of each arm: a step that
\* is no hash, a key that is no string or a value of the wrong type
Invalid(f) ==
  /\ Running
  /\ AtStep(f)
  /\ ~WellTyped(CurStep(f))
  /\ Fatal(NOT_VALID)
  /\ UNCHANGED << san, args, next_task, frames, INDEX, PADDING, stdout >>

\* lines 262-265
UnknownToken(f) ==
  /\ Running
  /\ AtStep(f)
  /\ WellTyped(CurStep(f))
  /\ CurKey(f).s \notin {"shell", "task", "parallel", "raw", "description"}
  /\ Fatal("Unkown token")
  /\ UNCHANGED << san, args, next_task, frames, INDEX, PADDING, stdout >>

\* line 217: the breadcrumb of the invoked task
child_prefix_bare(task_prefix, sub_task) == sub_task

child_prefix(task_prefix, sub_task) == task_prefix \o " > " \o sub_task

\* lines 214-221: the call is synchronous, the caller goes on when
\* cli_run_task has returned
Detached(fr) == Advance(fr)

Blocked(fr) == [fr EXCEPT !.st = "call"]

\* lines 212-222: the "task" arm calls cli_run_task with a copy of raw
CallTask(f) ==
  /\ Running
  /\ IsKind(f, "task")
  /\ Len(f) < MaxDepth
  /\ LET sub_task == CurStep(f).val.s
         child == Append(f, frames[f].pc)
     IN frames' = (child :> StackFrame("task", sub_task,
                                       child_prefix(frames[f].prefix, sub_task),
                                       frames[f].raw, << >>, "enter", f))
                  @@ [frames EXCEPT ![f] = Blocked(frames[f])]
  /\ UNCHANGED << san, args, next_task, INDEX, PADDING, stdout, stderr, status >>

\* lines 258-260: *raw = value, where raw is the bool of the frame itself
\* (cli_run_task's own copy, or the raw_clone moved into the thread)
RawShared(f) == IF frames[f].parent = << >> THEN f ELSE frames[f].parent

RawTarget(f) == f

SetRawStep(f) ==
  /\ Running
  /\ IsKind(f, "raw")
  /\ LET value == CurStep(f).val.b
         done == [frames EXCEPT ![f] = Advance(frames[f])]
     IN frames' = [done EXCEPT ![RawTarget(f)].raw = value]
  /\ UNCHANGED << san, args, next_task, INDEX, PADDING, stdout, stderr, status >>

\* line 261
DescriptionStep(f) ==
  /\ Running
  /\ IsKind(f, "description")
  /\ frames' = [frames EXCEPT ![f] = Advance(frames[f])]
  /\ UNCHANGED << san, args, next_task, INDEX, PADDING, stdout, stderr, status >>

\* ------------------------------------------------- run_task, "parallel" arm
Branches(f) == CurStep(f).val.l
BranchId(f, j) == Append(Append(f, frames[f].pc), j)

\* lines 223-224: threads = vec![]
StartParallel(f) ==
  /\ Running
  /\ IsKind(f, "parallel")
  /\ frames' = [frames EXCEPT ![f] =
                  IF Len(Branches(f)) = 0
                    THEN Advance(frames[f])
                    ELSE [frames[f] EXCEPT !.st = "spawn", !.n = 0]]
  /\ UNCHANGED << san, args, next_task, INDEX, PADDING, stdout, stderr, status >>

\* lines 226-252, one iteration: the thread of the next branch is spawned with
\* clones of the prefix, the task name and raw; after the last one the join
\* loop begins
Spawn(f) ==
  /\ Running
  /\ frames[f].st = "spawn"
  /\ LET j == frames[f].n + 1
         sub_task == Branches(f)[j]
     IN /\ is_hash(sub_task)
        /\ frames' = (BranchId(f, j) :>
                        StackFrame("branch", frames[f].task, frames[f].prefix,
                                   frames[f].raw, << sub_task >>, "step", f))
                     @@ [frames EXCEPT ![f].n = IF j = Len(Branches(f)) THEN 0 ELSE j,
                                       ![f].st = IF j = Len(Branches(f)) THEN "join" ELSE "spawn"]
  /\ UNCHANGED << san, args, next_task, INDEX, PADDING, stdout, stderr, status >>

\* lines 227-232: a branch that is no hash
SpawnInvalid(f) ==
  /\ Running
  /\ frames[f].st = "spawn"
  /\ ~is_hash(Branches(f)[frames[f].n + 1])
  /\ Fatal(NOT_VALID)
  /\ UNCHANGED << san, args, next_task, frames, INDEX, PADDING, stdout >>

\* the parallel step is complete when all count threads have been joined
FirstJoined(n, count) == n >= 1

AllJoined(n, count) == n = count

\* lines 254-256, one iteration: thread.join() returns when the thread's
\* closure has returned
Join(f) ==
  /\ Running
  /\ frames[f].st = "join"
  /\ LET j == frames[f].n + 1
         b == BranchId(f, j)
     IN /\ b \in Live
        /\ frames[b].st = "done"
        /\ frames' = [g \in Live \ {b} |->
                        IF g = f
                          THEN IF AllJoined(j, Len(Branches(f)))
                                 THEN Advance([frames[f] EXCEPT !.n = 0])
                                 ELSE [frames[f] EXCEPT !.n = j]
                          ELSE frames[g]]
  /\ UNCHANGED << san, args, next_task, INDEX, PADDING, stdout, stderr, status >>

\* --------------------------------------------------------------- run_shell
\* line 165: fetch_max stores the larger of the two values
Store(a, b) == b

Max(a, b) == IF a >= b THEN a ELSE b

\* AtomicU32::fetch_add(1) and fetch_sub(1).  They wrap at 2^32; TypeOK shows
\* that INDEX stays between 1 and the number of live frames + 1, where
\* nothing wraps.
fetch_add(v) == v + 1
\* a load in place of the subtraction
load(v) == v

fetch_sub(v) == v - 1

\* line 140: the SGR code of the color
ColorOf(current_index) == ColorBase + (current_index % ColorCount)

\* line 145: quiet_tasks.contains(&task_name)
QuietByPrefix(f) == frames[f].prefix \in quiet_tasks

Quiet(f) == frames[f].task \in quiet_tasks

\* line 209: the raw argument of run_shell is raw.clone(), the current value
\* of the frame's raw
raw_of_main(f) == raw_flag

raw_clone(f) == frames[f].raw

\* lines 139-160: INDEX.fetch_add(1), the color, and the spawn of the command
\* (directly in raw mode, on a pseudo-terminal otherwise)
ShellBegin(f) ==
  /\ Running
  /\ IsKind(f, "shell")
  /\ INDEX' = fetch_add(INDEX)
  /\ frames' = [frames EXCEPT ![f].color = ColorOf(INDEX),
                              ![f].n = 0,
                              ![f].code = None,
                              ![f].st = IF raw_clone(f) THEN "rawwait"
                                        ELSE IF Quiet(f) THEN "wait" ELSE "max"]
  /\ UNCHANGED << san, args, next_task, PADDING, stdout, stderr, status >>

\* lines 153-155 and 159-160: the spawn fails
SpawnFail(f) ==
  /\ Running
  /\ IsKind(f, "shell")
  /\ INDEX' = fetch_add(INDEX)
  /\ frames' = [frames EXCEPT ![f].color = ColorOf(INDEX),
                              ![f].n = 0,
                              ![f].code = None,
                              ![f].st = "begun"]
  /\ FatalErr("Failed to run task " \o frames[f].task)
  /\ UNCHANGED << san, args, next_task, PADDING, stdout >>

\* lines 163-165: PADDING.fetch_max(this_padding)
FetchMax(f) ==
  /\ Running
  /\ frames[f].st = "max"
  /\ PADDING' = Max(PADDING, Len(frames[f].task) + 1)
  /\ frames' = [frames EXCEPT ![f].this_padding = Len(frames[f].task) + 1,
                              ![f].st = "read"]
  /\ UNCHANGED << san, args, next_task, INDEX, stdout, stderr, status >>

\* line 167: get_pty_stream() fails
StreamFail(f) ==
  /\ Running
  /\ frames[f].st = "read"
  /\ frames[f].n = 0
  /\ FatalErr("Could not get pty output")
  /\ UNCHANGED << san, args, next_task, frames, INDEX, PADDING, stdout >>

\* line 179: padding.saturating_sub(this_padding)
PaddingWhole(padding, this_padding) == padding

PaddingPrefix(padding, this_padding) ==
  IF padding >= this_padding THEN padding - this_padding ELSE 0

\* lines 168-185, one line of the command: it is sanitized, PADDING is
\* loaded and the line is printed behind color, label and padding
PrintLine(f) ==
  /\ Running
  /\ frames[f].st = "read"
  /\ frames[f].n < MaxLines
  /\ \E line \in Lines :
       stdout' = Append(stdout,
                   [kind |-> "line", f |-> f, text |-> frames[f].task,
                    time |-> time_prefix, color |-> frames[f].color,
                    pad |-> PaddingPrefix(PADDING, frames[f].this_padding),
                    line |-> sanitize_string(line)])
  /\ frames' = [frames EXCEPT ![f].n = @ + 1]
  /\ UNCHANGED << san, args, next_task, INDEX, PADDING, stderr, status >>

\* lines 147-157: in raw mode the command writes to the terminal itself,
\* unless the task is quiet (Stdio::null)
RawLine(f) ==
  /\ Running
  /\ frames[f].st = "rawwait"
  /\ ~Quiet(f)
  /\ frames[f].n < MaxLines
  /\ \E line \in Lines :
       stdout' = Append(stdout,
                   [kind |-> "raw", f |-> f, text |-> frames[f].task,
                    time |-> "", color |-> 0, pad |-> 0, line |-> line])
  /\ frames' = [frames EXCEPT ![f].n = @ + 1]
  /\ UNCHANGED << san, args, next_task, INDEX, PADDING, stderr, status >>

\* the exit codes of a command
ExitCodes == {0, 1}

\* what a command's exit code makes of the run: wait() is Ok(status) whatever
\* the code, and the status is dropped
FatalNonZero(code) == code # 0

FatalExit(code) == FALSE

\* lines 156-157, 188 and 191-192: the command has ended (its output is at
\* its end), wait() returns its status, INDEX.fetch_sub(1)
ShellEnd(f) ==
  /\ Running
  /\ frames[f].st \in {"read", "wait", "rawwait"}
  /\ \E code \in ExitCodes :
       IF FatalExit(code)
         THEN /\ FatalErr("Task " \o frames[f].task \o " failed")
              /\ frames' = [frames EXCEPT ![f].code = Some(code)]
              /\ UNCHANGED INDEX
         ELSE /\ INDEX' = fetch_sub(INDEX)
              /\ frames' = [frames EXCEPT ![f] = Advance([frames[f] EXCEPT !.code = Some(code)])]
              /\ UNCHANGED << stderr, status >>
  /\ UNCHANGED << san, args, next_task, PADDING, stdout >>

\* lines 157 and 188: wait() itself fails
WaitFail(f) ==
  /\ Running
  /\ frames[f].st \in {"read", "wait", "rawwait"}
  /\ FatalErr("Task " \o frames[f].task \o " failed")
  /\ UNCHANGED << san, args, next_task, frames, INDEX, PADDING, stdout >>

\* ------------------------------------------------------------ specification
Next ==
  \/ load_pilotfile
  \/ cli_list_tasks
  \/ MainRun
  \/ MainExit
  \/ \E f \in Live : Enter(f)
  \/ \E f \in Live : Lookup(f)
  \/ \E f \in Live : Finish(f)
  \/ \E f \in Live : Invalid(f)
  \/ \E f \in Live : UnknownToken(f)
  \/ \E f \in Live : CallTask(f)
  \/ \E f \in Live : SetRawStep(f)
  \/ \E f \in Live : DescriptionStep(f)
  \/ \E f \in Live : StartParallel(f)
  \/ \E f \in Live : Spawn(f)
  \/ \E f \in Live : Join(f)
  \/ \E f \in Live : ShellBegin(f)
  \/ \E f \in Live : SpawnFail(f)
  \/ \E f \in Live : FetchMax(f)
  \/ \E f \in Live : StreamFail(f)
  \/ \E f \in Live : PrintLine(f)
  \/ \E f \in Live : RawLine(f)
  \/ \E f \in Live : ShellEnd(f)
  \/ \E f \in Live : WaitFail(f)
  \/ \E f \in Live : SpawnInvalid(f)

Spec == Init /\ [][Next]_vars

TypeOK ==
  /\ INDEX \in 1..(Cardinality(Live) + 1)
  /\ PADDING \in Nat
  /\ status \in {"start", "running", "exit0", "exit1"}
  /\ \A f \in Live : frames[f].st \in
       {"enter", "lookup", "step", "call", "spawn", "join", "begun", "max",
        "read", "wait", "rawwait", "done"}

\* ------------------------------------------- sanitize_string, step by step
\* the longest line of the bounded inputs
MaxLen == 4

\* the characters of the bounded inputs: the escape character, the characters
\* of a sequence, its final characters 'm' and 'K', and a character outside
\* ASCII
Alphabet == {ESC, "[", ";", "2", "m", "K", EAcute}
\* the line of progress output "ESC[2K ESC[0G Hello"
ClearedLine ==
  << ESC, "[", "2", "K", ESC, "[", "0", "G", "H", "e", "l", "l", "o" >>
InputLines == UNION {[1..n -> Alphabet] : n \in 0..MaxLen} \cup {ClearedLine}

\* line 101 (let mut i = 0) of a call with any of the input lines
SanInit ==
  /\ san_input \in InputLines
  /\ san_line = san_input
  /\ san_i = 0
  /\ san_st = "loop"
  /\ tasks_to_run = << >>
  /\ quiet_tasks = {}
  /\ raw_flag = FALSE
  /\ timestamp = FALSE
  /\ listing = FALSE
  /\ pilotfile_at = "cwd"
  /\ Started

\* the loop is at a character
InLoop == san_st = "loop" /\ get(san_line, san_i) # None
\* do_remove(i, char, &mut line) of the iteration
Removal == do_remove(san_i, san_line[san_i + 1], san_line)

\* lines 102-108, an iteration that removes nothing: i += 1
SanAdvance ==
  /\ InLoop
  /\ ~Removal.panic
  /\ ~Removal.removed
  /\ san_i' = next_index(FALSE, san_i)
  /\ UNCHANGED << san_input, san_line, san_st, args, next_task, frames, INDEX,
                  PADDING, stdout, stderr, status >>

\* lines 102-108, an iteration that removes characters: i = 0
SanRemove ==
  /\ InLoop
  /\ ~Removal.panic
  /\ Removal.removed
  /\ san_line' = Removal.line
  /\ san_i' = next_index(TRUE, san_i)
  /\ UNCHANGED << san_input, san_st, args, next_task, frames, INDEX, PADDING,
                  stdout, stderr, status >>

\* line 80: the slice is not at a character boundary
SanPanic ==
  /\ InLoop
  /\ Removal.panic
  /\ san_st' = "panicked"
  /\ UNCHANGED << san_input, san_line, san_i, args, next_task, frames, INDEX,
                  PADDING, stdout, stderr, status >>

\* lines 102 and 110: line.get(i..(i + 1)) is None, the line is returned
SanReturn ==
  /\ san_st = "loop"
  /\ get(san_line, san_i) = None
  /\ san_st' = "returned"
  /\ UNCHANGED << san_input, san_line, san_i, args, next_task, frames, INDEX,
                  PADDING, stdout, stderr, status >>

SanNext ==
  \/ SanAdvance
  \/ SanRemove
  \/ SanPanic
  \/ SanReturn

SanSpec == SanInit /\ [][SanNext]_vars

\* the loop is sequential code of one thread: it goes on while it can
SanFairSpec == SanSpec /\ WF_vars(SanNext)

\* the steps of the loop compute what sanitize_string returns
SanTypeOK ==
  /\ san_i \in 0..Len(san_line)
  /\ Len(san_line) <= Len(san_input)
  /\ san_st \in {"loop", "returned", "panicked"}
  /\ san_st = "returned" => san_line = sanitize_string(san_input)
  /\ san_st = "panicked" => sanitize_panics(san_input)
  /\ sanitize_panics(san_input) => san_st # "returned"

\* ------------------------------------------------------------------ claims
IsPrefix(a, b) == Len(a) <= Len(b) /\ SubSeq(b, 1, Len(a)) = a
Finished(f) == \E i \in DOMAIN stdout : stdout[i].kind = "finished" /\ stdout[i].f = f
Entered(f) == \E i \in DOMAIN stdout : stdout[i].kind = "enter" /\ stdout[i].f = f
\* the index in its parent's list of the step a frame belongs to
StepOf(g) == IF frames[g].kind = "branch" THEN g[Len(g) - 1] ELSE g[Len(g)]
Waiting(f) == frames[f].st \in {"call", "spawn", "join"}

\* C1: while a branch thread of a parallel step is alive, its parent is in
\* the spawn or join loop of that very step (no later step has started), no
\* thread is joined before all are spawned, the threads not yet joined are
\* all alive, and no "finished" trace of an enclosing task has been printed.
C1_ParallelJoin ==
  \A b \in Live :
    frames[b].kind = "branch" =>
      LET p == frames[b].parent IN
        /\ p \in Live
        /\ frames[p].st \in {"spawn", "join"}
        /\ frames[p].pc = StepOf(b)
        /\ frames[p].st = "spawn" =>
             \A j \in 1..frames[p].n : BranchId(p, j) \in Live
        /\ frames[p].st = "join" =>
             \A j \in (frames[p].n + 1)..Len(Branches(p)) : BranchId(p, j) \in Live
        /\ \A i \in DOMAIN stdout :
             stdout[i].kind = "finished" => ~IsPrefix(stdout[i].f, b)

\* a branch was joined while a later branch of the same step is still running
C1_Witness ==
  \E p \in Live :
    /\ frames[p].st = "join"
    /\ frames[p].n >= 1
    /\ \E j \in (frames[p].n + 1)..Len(Branches(p)) :
         frames[BranchId(p, j)].st \notin {"step", "done"}

\* the step a frame is at is complete in the next state
C2_StepDone(f) ==
  LET step == frames[f].steps[frames[f].pc] IN
    /\ \A g \in DOMAIN frames' : frames'[g].parent # f
    /\ IsKind(f, "task") \/ frames[f].st = "call" =>
         /\ frames[f].st = "call"
         /\ \E i \in DOMAIN stdout' :
              stdout'[i].kind = "finished" /\ stdout'[i].f = Append(f, frames[f].pc)
    /\ step.key.s = "shell" => frames[f].st \in {"read", "wait", "rawwait"}
    /\ IsKind(f, "parallel") \/ frames[f].st \in {"spawn", "join"} =>
         \/ IsKind(f, "parallel") /\ Len(Branches(f)) = 0
         \/ frames[f].st = "join" /\ frames[f].n + 1 = Len(step.val.l)

\* C2: a frame's step index only ever grows by one, and it grows only when
\* the step is complete: no frame started for it is alive any more, a task
\* step's invocation has printed its exit trace, a shell step's command has
\* been waited for and a parallel step's last thread has just been joined;
\* the frames that wait for a frame wait at the step it was started for.
C2_InOrder ==
  [][ /\ \A f \in Live \cap DOMAIN frames' :
           /\ frames'[f].pc \in {frames[f].pc, frames[f].pc + 1}
           /\ frames'[f].pc = frames[f].pc + 1 => C2_StepDone(f)
      /\ \A g \in DOMAIN frames' :
           frames'[g].parent # << >> =>
             /\ frames'[g].parent \in DOMAIN frames'
             /\ frames'[frames'[g].parent].st \in {"call", "spawn", "join"}
             /\ frames'[frames'[g].parent].pc = g[Len(frames'[g].parent) + 1]
    ]_vars

\* the step after a parallel step has started
C2_Witness ==
  \E f \in Live :
    /\ frames[f].pc >= 2
    /\ frames[f].st = "call"
    /\ frames[f].steps[frames[f].pc - 1].key.s = "parallel"

\* C3: the raw value of a frame changes only by a raw step of the frame's
\* own list: not while it waits for a task it invoked or for its branches,
\* and not by a raw step of a sibling branch.
C3_RawIsLocal ==
  [][ \A f \in Live \cap DOMAIN frames' :
        frames'[f].raw # frames[f].raw =>
          /\ IsKind(f, "raw")
          /\ frames'[f].raw = CurStep(f).val.b
          /\ \A g \in (Live \cap DOMAIN frames') \ {f} : frames'[g].raw = frames[g].raw
    ]_vars

\* raw-explicit runs its last command in raw mode after not-raw-explicit,
\* which set raw to false, has returned
C3_Witness ==
  \E f \in Live :
    /\ frames[f].task = "raw-explicit"
    /\ frames[f].pc = 4
    /\ frames[f].st = "rawwait"
    /\ Finished(Append(f, 3))

\* C4: when the process has ended with a fatal error while a parallel step
\* was in its join loop (the error happened in a branch thread), the other
\* branches of the step have run to completion: at most the failing branch
\* is unfinished.
C4_SiblingsComplete ==
  status = "exit1" =>
    \A p \in Live :
      frames[p].st = "join" =>
        Cardinality({b \in Live : /\ frames[b].kind = "branch"
                                  /\ frames[b].parent = p
                                  /\ frames[b].st # "done"}) <= 1

\* a shell step is active from INDEX.fetch_add to INDEX.fetch_sub
ShellActive(f) == frames[f].st \in {"begun", "max", "read", "wait", "rawwait"}

\* C5: if at most 7 shell steps are active, their colors are pairwise distinct.
C5_DistinctColors ==
  Cardinality({f \in Live : ShellActive(f)}) <= ColorCount =>
    \A f, g \in Live :
      f # g /\ ShellActive(f) /\ ShellActive(g) => frames[f].color # frames[g].color

\* the body of a task of the Pilotfile
Body(name) ==
  LET found == found_tasks(name) IN
    IF Len(found) = 1 /\ is_vec(found[1].val) THEN found[1].val.l ELSE << >>

\* the breadcrumb of the invocation with id path, from the command line and
\* the Pilotfile alone: every task step on the path adds " > " and its name
RECURSIVE Walk(_, _, _, _)
Walk(path, i, prefix, steps) ==
  IF i > Len(path)
    THEN prefix
    ELSE LET step == steps[path[i]] IN
         IF step.key.s = "task"
           THEN Walk(path, i + 1, prefix \o " > " \o step.val.s, Body(step.val.s))
           ELSE Walk(path, i + 2, prefix, << step.val.l[path[i + 1]] >>)

Crumb(f) == Walk(f, 2, tasks_to_run[f[1]], Body(tasks_to_run[f[1]]))

\* the traces in stdout and the frames that print them
C6_State ==
  /\ \A i \in DOMAIN stdout :
       LET r == stdout[i] IN
         /\ r.kind = "enter" =>
              /\ r.text = EntryTrace(Crumb(r.f))
              /\ \A j \in 1..(i - 1) : ~IsPrefix(r.f, stdout[j].f)
         /\ r.kind = "finished" =>
              /\ r.text = ExitTrace(Crumb(r.f))
              /\ \E j \in 1..(i - 1) : stdout[j].kind = "enter" /\ stdout[j].f = r.f
              /\ \A j \in (i + 1)..Len(stdout) : ~IsPrefix(r.f, stdout[j].f)
              /\ \A g \in Live : ~IsPrefix(r.f, g)
  /\ \A f \in Live :
       /\ frames[f].kind = "task" => frames[f].prefix = Crumb(f)
       /\ frames[f].kind = "task" /\ frames[f].st # "enter" => Entered(f)
       /\ frames[f].st = "enter" =>
            /\ frames[f].pc = 1
            /\ \A g \in Live : g # f => ~IsPrefix(f, g)
            /\ \A i \in DOMAIN stdout : ~IsPrefix(f, stdout[i].f)

\* an exit trace is printed by an invocation whose steps have all completed
C6_Step ==
  Len(stdout') = Len(stdout) + 1 /\ stdout'[Len(stdout')].kind = "finished" =>
    LET f == stdout'[Len(stdout')].f IN
      /\ f \in Live
      /\ frames[f].st = "step"
      /\ frames[f].pc = Len(frames[f].steps) + 1
      /\ \A g \in Live \ {f} : ~IsPrefix(f, g)

\* C6: every entry trace is "> breadcrumb" and precedes every line printed by
\* the invocation and by the invocations under it (so it lies after the entry
\* trace of the invoking task); every exit trace is "finished breadcrumb" of
\* the same breadcrumb, follows the invocation's entry trace and every line of
\* the invocation and of those under it (so it lies before the exit trace of
\* the invoking task), and is printed when all steps of the invocation have completed; the
\* breadcrumb is the invoker's breadcrumb, " > " and the task name.  An
\* invocation runs no step before its entry trace.
C6_Traces == [](C6_State) /\ [][C6_Step]_vars

\* a task invoked by a task step inside a parallel branch has finished, and
\* after it the task that was asked for
C6_Witness ==
  \E i, j \in DOMAIN stdout :
    /\ i < j
    /\ stdout[i].kind = "finished" /\ Len(stdout[i].f) > 2
    /\ stdout[j].kind = "finished" /\ Len(stdout[j].f) = 1
    /\ IsPrefix(stdout[j].f, stdout[i].f)

\* an invocation of a task that is in no entry of the Pilotfile
Missing(f) == frames[f].kind = "task" /\ Len(found_tasks(frames[f].task)) = 0
NotFoundMsg(task) == "Task " \o task \o " not found in Pilotfile"
Changed(f) == f \notin DOMAIN frames' \/ frames'[f] # frames[f]

\* an invocation of a missing task, and the message it ends with
C7_State ==
  /\ \A f \in Live :
       Missing(f) =>
         /\ frames[f].st \in {"enter", "lookup"}
         /\ frames[f].steps = << >>
         /\ frames[f].st = "lookup" =>
              \E i \in DOMAIN stdout :
                /\ stdout[i].kind = "enter" /\ stdout[i].f = f
                /\ stdout[i].text = EntryTrace(frames[f].prefix)
         /\ \A i \in DOMAIN stdout :
              stdout[i].kind = "finished" => ~IsPrefix(stdout[i].f, f)
  /\ \A i \in DOMAIN stderr : \A f \in Live :
       stderr[i] = NotFoundMsg(frames[f].task) =>
         /\ status = "exit1"
         /\ \E g \in Live : /\ Missing(g) /\ frames[g].task = frames[f].task
                            /\ frames[g].st = "lookup" /\ Entered(g)

\* the steps of an invocation of a missing task, and the exit
C7_Step ==
  /\ \A f \in Live :
       Missing(f) /\ Changed(f) =>
         /\ frames[f].st = "enter"
         /\ f \in DOMAIN frames' /\ frames'[f].st = "lookup"
  /\ \A f \in Live :
       /\ Missing(f) /\ frames[f].st = "lookup"
       /\ \A g \in Live \ {f} : Waiting(g)
       => /\ status' = "exit1"
          /\ stderr' = Append(stderr, NotFoundMsg(frames[f].task))
  /\ status = "running" /\ status' = "exit1" =>
       stdout' = stdout /\ Len(stderr') = Len(stderr) + 1
  /\ status \in {"exit0", "exit1"} => UNCHANGED vars

\* C7: an invocation of a missing task prints its entry trace and then ends
\* the process with "not found" and status 1: it never gets a step list, the
\* error leaves stdout as it is, nothing happens after the exit, and no
\* "finished" trace of the missing task or of a task enclosing it is printed.
\* The error is reported only by an invocation that was reached, and it is
\* the next thing that happens when no other thread runs.
C7_MissingTask == [](C7_State) /\ [][C7_Step]_vars

\* a task step names a missing task after a shell step of the list has
\* printed a line: the process has ended with "not found"
C7_Witness ==
  /\ status = "exit1"
  /\ \E f \in Live :
       /\ Missing(f) /\ Len(f) > 1
       /\ stderr = << NotFoundMsg(frames[f].task) >>
       /\ \E i \in DOMAIN stdout : stdout[i].kind = "line" /\ IsPrefix(stdout[i].f, f)

\* a shell step with a status is over
C8_State ==
  \A f \in Live : ShellActive(f) => frames[f].code = None

\* the step in which wait() returns, and the step after the last command
C8_Step ==
  /\ \A f \in Live \cap DOMAIN frames' :
       ShellActive(f) /\ frames'[f].code # None =>
         /\ INDEX' = INDEX - 1
         /\ status' = "running"
         /\ stdout' = stdout /\ stderr' = stderr
         /\ frames'[f] = [Advance(frames[f]) EXCEPT !.code = frames'[f].code]
  /\ \A f \in Live :
       /\ frames[f].code = Some(1)
       /\ frames[f].kind = "task"
       /\ frames[f].st = "step" /\ frames[f].pc > Len(frames[f].steps)
       /\ Changed(f)
       => /\ stdout' = Append(stdout, Out("finished", f, ExitTrace(frames[f].prefix)))
          /\ status' = "running"

\* C8: when wait() has returned a status, zero or not, the shell step is
\* over: the slot is released (INDEX is one less), the frame is at its next
\* step exactly as after status 0, and the process is still running; an
\* invocation whose last command ended with status 1 prints its exit trace
\* as its next step.
C8_ExitStatusIgnored == [](C8_State) /\ [][C8_Step]_vars

\* the second step of raw-explicit ended with status 1; the task step after
\* it has run and finished, and the list goes on
C8_Witness ==
  \E f \in Live :
    /\ frames[f].task = "raw-explicit"
    /\ frames[f].code = Some(1)
    /\ frames[f].pc = 4 /\ frames[f].st = "step"
    /\ Finished(Append(f, 3))

\* a frame reads lines after its fetch_max
C9_State ==
  \A f \in Live :
    frames[f].st = "read" =>
      /\ frames[f].this_padding = Len(frames[f].task) + 1
      /\ PADDING >= frames[f].this_padding

\* the step that prints a line
C9_Step ==
  Len(stdout') = Len(stdout) + 1 /\ stdout'[Len(stdout')].kind = "line" =>
    LET r == stdout'[Len(stdout')] IN
      /\ PADDING >= Len(r.text) + 1
      /\ r.pad = PADDING - (Len(r.text) + 1)
      /\ r.f \in Live /\ frames[r.f].st = "read" /\ r.text = frames[r.f].task

\* C9: a frame that reads its command's lines has updated PADDING with its
\* label width, so PADDING is at least that width; a printed line carries
\* PADDING - label width spaces, PADDING being read when the line is printed.
C9_PaddingAtPrint == [](C9_State) /\ [][C9_Step]_vars

\* a line was printed with padding while a shell step of another thread is
\* active
C9_Witness ==
  /\ Len(stdout) > 0
  /\ LET r == stdout[Len(stdout)] IN
       /\ r.kind = "line" /\ r.pad > 0
       /\ \E g \in Live : g # r.f /\ ShellActive(g) /\ ~IsPrefix(g, r.f)

BeginsSgr(line, p) ==
  \E q \in (p + 1)..(Len(line) - 1) :
    /\ line[q + 1] = "m"
    /\ \A k \in (p + 1)..(q - 1) : IsCsi(line[k + 1])
EscapesAt(line) == {p \in 0..(Len(line) - 1) : line[p + 1] = ESC}
AllSgr(line) == \A p \in EscapesAt(line) : BeginsSgr(line, p)

\* C11: a line whose escape characters all begin an SGR sequence is never
\* changed by an iteration of the loop, the call does not panic, and the
\* line that sanitize_string returns is the input line.
C11_SgrUnchanged ==
  AllSgr(san_input) =>
    /\ san_line = san_input
    /\ san_st # "panicked"
    /\ sanitize_string(san_input) = san_input
    /\ ~sanitize_panics(san_input)

\* the call has returned a line with text before and behind an SGR sequence
C11_Witness ==
  /\ san_st = "returned"
  /\ AllSgr(san_input)
  /\ \E p \in EscapesAt(san_input) : p >= 1 /\ san_input[p] # "m"
  /\ san_input[Len(san_input)] = "K"
  /\ san_i = Len(san_input)

\* the leftmost escape character of the line that does not begin an SGR
\* sequence is at position p and a terminator follows it
LeftmostOther(line, p) ==
  /\ p \in EscapesAt(line)
  /\ ~BeginsSgr(line, p)
  /\ \A k \in EscapesAt(line) : k < p => BeginsSgr(line, k)
  /\ Stops(p, line) # {}

\* C12: when the leftmost escape character that does not begin an SGR
\* sequence is followed by a terminator, the call does not panic and returns
\* what sanitize_string returns for the text behind the terminator (all of
\* the line up to the terminator is deleted); ESC[2K ESC[0G Hello becomes
\* Hello.
C12_PrefixDeleted ==
  /\ \A p \in EscapesAt(san_input) :
       LeftmostOther(san_input, p) =>
         /\ san_st # "panicked"
         /\ san_st = "returned" =>
              san_line = sanitize_string(Drop(san_input, FirstStop(p, san_input) + 1))
  /\ san_st = "returned" /\ san_input = ClearedLine =>
       san_line = << "H", "e", "l", "l", "o" >>

\* the loop is at an escape character that only '[', ';' and digits follow up
\* to the end of the line (or nothing follows it)
OpenEscape ==
  /\ InLoop
  /\ san_line[san_i + 1] = ESC
  /\ Stops(san_i, san_line) = {}

\* C13 as stated: the iteration at an escape character without a terminator
\* leaves the line as it is and advances the index by one.
C13_Unmodified ==
  [][OpenEscape => san_line' = san_line /\ san_i' = san_i + 1]_vars

\* C13: the iteration at an escape character without a terminator removes
\* the escape character and all that follows it, and the scan starts again
\* at index 0.
C13_Truncated ==
  [][OpenEscape =>
       /\ san_line' = Take(san_line, san_i)
       /\ san_i' = 0
       /\ san_st' = "loop"]_vars

\* the line was cut at an escape character that had text before it and
\* characters of a sequence behind it
C13_Witness ==
  /\ san_st = "loop"
  /\ san_i = 0
  /\ \E p \in EscapesAt(san_input) :
       /\ p >= 1
       /\ p + 1 < Len(san_input)
       /\ Stops(p, san_input) = {}
       /\ san_line = Take(san_input, p)
       /\ \A k \in 1..p : san_line[k] \notin {ESC, EAcute}

\* an iteration sets the index to 0 and the line is strictly shorter, or it
\* adds one to the index and leaves the line, or the loop is left
C18_Step ==
  san_st = "loop" =>
    \/ san_st' = "loop" /\ san_i' = 0 /\ Len(san_line') < Len(san_line)
    \/ san_st' = "loop" /\ san_i' = san_i + 1 /\ san_line' = san_line
    \/ san_st' # "loop" /\ san_i' = san_i /\ san_line' = san_line

C19_Idempotent ==
  san_st = "returned" =>
    /\ AllSgr(san_line)
    /\ ~sanitize_panics(san_line)
    /\ sanitize_string(san_line) = san_line

\* ------------------------------------------------------- claims of the runs
\* the frame runs steps of a task that is named behind -q
Silenced(f) == frames[f].task \in quiet_tasks

\* no line of a command of a quiet task is in the output; a quiet task that
\* is past its entry has its entry trace in the output; its commands are
\* begun without the reading of their output
C14_State ==
  /\ \A i \in DOMAIN stdout :
       stdout[i].kind \in {"line", "raw"} => stdout[i].text \notin quiet_tasks
  /\ \A f \in Live :
       Silenced(f) =>
         /\ frames[f].kind = "task" /\ frames[f].st # "enter" =>
              \E i \in DOMAIN stdout :
                /\ stdout[i].kind = "enter" /\ stdout[i].f = f
                /\ stdout[i].text = EntryTrace(frames[f].prefix)
         /\ frames[f].st \notin {"max", "read"}

\* the steps of a frame of a quiet task: a shell step begins its command
\* (INDEX.fetch_add and the spawn), a command that was begun is waited for
\* (wait() returns a status, or fails and ends the process), and the
\* invocation ends with its exit trace
C14_Step ==
  \A f \in Live :
    Silenced(f) /\ Changed(f) =>
      /\ IsKind(f, "shell") =>
           /\ INDEX' = INDEX + 1
           /\ f \in DOMAIN frames'
           /\ frames'[f].st \in {"begun", "wait", "rawwait"}
           /\ frames'[f].st = "begun" <=> status' = "exit1"
           /\ frames'[f].st = "rawwait" <=> status' = "running" /\ frames[f].raw
      /\ frames[f].st \in {"wait", "rawwait"} =>
           /\ f \in DOMAIN frames'
           /\ frames'[f].code # None
           /\ frames'[f].pc = frames[f].pc + 1
           /\ stdout' = stdout
      /\ f \notin DOMAIN frames' /\ frames[f].kind = "task" =>
           stdout' = Append(stdout, Out("finished", f, ExitTrace(frames[f].prefix)))

\* C14: a task named in the quiet set still has each shell step spawned and
\* waited for and its entry and exit traces printed, and no line of its
\* commands is printed, whether the step runs raw or captured.
C14_QuietRuns == [](C14_State) /\ [][C14_Step]_vars

\* a quiet task in raw mode: its first command was waited for, its second
\* one is running
C14_Witness ==
  \E f \in Live :
    /\ Silenced(f)
    /\ frames[f].raw
    /\ frames[f].pc = 2
    /\ frames[f].st = "rawwait"
    /\ frames[f].steps[1].key.s = "shell"
    /\ Entered(f)

\* what the tool prints when it is started without arguments in the
\* directory of the Pilotfile
Listing ==
  << Out("list", << >>, "Available tasks:") >>
  \o [k \in 1..Len(Pilotfile) |-> Out("list", << >>, "\t" \o task_to_string(Pilotfile[k]))]

\* C15: started without arguments in a directory whose parent holds the
\* Pilotfile, the tool ends with status 0, prints nothing on standard error
\* and lists the tasks as it does in the parent directory.
C15_ParentPilotfile ==
  listing /\ pilotfile_at = "parent" =>
    /\ status # "exit1"
    /\ stderr = << >>
    /\ status = "exit0" => stdout = Listing

\* a step that sets raw
IsSetRaw(step) ==
  is_hash(step) /\ is_str(step.key) /\ step.key.s = "raw" /\ is_bool(step.val)

\* the raw value at step k of a list: the value of the last raw step before
\* k, or the value the list was entered with
RawAt(steps, k, received) ==
  LET before == {j \in 1..(k - 1) : j <= Len(steps) /\ IsSetRaw(steps[j])} IN
    IF before = {}
      THEN received
      ELSE steps[CHOOSE j \in before : \A h \in before : h <= j].val.b

\* the list of the invocation or branch with id path and the raw value it
\* was entered with, from the command line and the Pilotfile alone
RECURSIVE WalkRaw(_, _, _, _)
WalkRaw(path, i, received, steps) ==
  IF i > Len(path)
    THEN [raw |-> received, steps |-> steps]
    ELSE LET step == steps[path[i]]
             here == RawAt(steps, path[i], received)
         IN IF step.key.s = "task"
              THEN WalkRaw(path, i + 1, here, Body(step.val.s))
              ELSE WalkRaw(path, i + 2, here, << step.val.l[path[i + 1]] >>)

EffectiveRaw(f) ==
  LET entered == WalkRaw(f, 2, raw_flag, Body(tasks_to_run[f[1]])) IN
    RawAt(entered.steps, frames[f].pc, entered.raw)

\* a command runs raw exactly when the effective raw value of its step is true
C16_State ==
  \A f \in Live :
    /\ frames[f].raw = EffectiveRaw(f)
    /\ frames[f].st \in {"rawwait"} => EffectiveRaw(f)
    /\ frames[f].st \in {"max", "read", "wait"} => ~EffectiveRaw(f)

\* a raw command leaves PADDING alone and no line with color and label is
\* printed for it
C16_Step ==
  /\ \A f \in Live :
       IsKind(f, "shell") /\ Changed(f) /\ status' = "running" =>
         (frames'[f].st = "rawwait" <=> EffectiveRaw(f))
  /\ \A f \in Live :
       frames[f].st = "rawwait" /\ Changed(f) =>
         /\ PADDING' = PADDING
         /\ \/ stdout' = stdout
            \/ /\ Len(stdout') = Len(stdout) + 1
               /\ SubSeq(stdout', 1, Len(stdout)) = stdout
               /\ stdout'[Len(stdout')].kind = "raw"
               /\ ~Silenced(f)
  /\ Len(stdout') = Len(stdout) + 1 /\ stdout'[Len(stdout')].kind = "line" =>
       ~EffectiveRaw(stdout'[Len(stdout')].f)

\* C16: a shell step runs raw exactly when the effective raw value at the
\* step is true (the last raw step before it in its list, else the value
\* the invocation or branch was entered with: -r at top level, the
\* invoker's value at its task or parallel step); a raw command prints no
\* line with color and label and does not change PADDING.
C16_EffectiveRaw == [](C16_State) /\ [][C16_Step]_vars

\* without -r: raw-explicit has set raw, its first command wrote a line
\* itself, and the task it invoked, which sets raw to false, runs its
\* command captured
C16_Witness ==
  /\ ~raw_flag
  /\ \E f \in Live :
       /\ Len(f) = 2
       /\ frames[f].task = "not-raw-explicit"
       /\ frames[f].st = "read"
       /\ frames[frames[f].parent].raw
       /\ \E i \in DOMAIN stdout :
            stdout[i].kind = "raw" /\ stdout[i].f = frames[f].parent

\* the shell steps between INDEX.fetch_add and INDEX.fetch_sub
ActiveSteps == {f \in Live : ShellActive(f)}

\* a shell step that begins while no other is active gets color 32
C17_Step ==
  \A f \in Live :
    IsKind(f, "shell") /\ Changed(f) /\ ActiveSteps = {} =>
      /\ INDEX = 1
      /\ frames'[f].color = ColorBase + 1
      /\ frames'[f].color = 32

\* C17: INDEX is 1 plus the number of shell steps that have begun and not
\* ended (so it is at least 1, and 1 when no shell step is active), and a
\* shell step that begins when no other is active, such as the steps of
\* tasks run one after another, gets the color code 32.
C17_ActiveCount ==
  /\ [](INDEX = 1 + Cardinality(ActiveSteps))
  /\ [][C17_Step]_vars

\* the command of the second requested task runs, with color 32, after the
\* command of the first one has ended and printed with color 32
C17_Witness ==
  /\ next_task = 2
  /\ << 2 >> \in Live
  /\ ShellActive(<< 2 >>)
  /\ frames[<< 2 >>].color = 32
  /\ INDEX = 2
  /\ \E i \in DOMAIN stdout :
       stdout[i].kind = "line" /\ stdout[i].f = << 1 >> /\ stdout[i].color = 32

\* ------------------------------------------------------------- termination
\* the runs without -r and -t and with cs quiet
FairInit ==
  /\ Init
  /\ ~raw_flag
  /\ ~timestamp
  /\ ~listing => quiet_tasks = {"cs"}

\* every thread that can take a step takes one (the scheduler of the
\* operating system), and a command that runs comes to its end
FairSpec == FairInit /\ [][Next]_vars /\ WF_vars(Next)

\* the tasks that a step invokes: a task step, or the branches of a parallel
\* step
RECURSIVE StepRefs(_)
StepRefs(step) ==
  IF ~is_hash(step) \/ ~is_str(step.key) THEN {}
  ELSE IF step.key.s = "task" /\ is_str(step.val) THEN {step.val.s}
  ELSE IF step.key.s = "parallel" /\ is_vec(step.val)
    THEN UNION {StepRefs(step.val.l[k]) : k \in DOMAIN step.val.l}
  ELSE {}
Refs(name) == UNION {StepRefs(Body(name)[k]) : k \in DOMAIN Body(name)}

\* the tasks reached from the tasks of S by at most n further invocations
RECURSIVE ReachFrom(_, _)
ReachFrom(S, n) ==
  IF n = 0 THEN S ELSE ReachFrom(S \cup UNION {Refs(x) : x \in S}, n - 1)
Invoked(name) == ReachFrom(Refs(name), Len(Pilotfile))

\* no task that the run reaches invokes itself, directly or through others
NoSelfReference ==
  \A k \in DOMAIN tasks_to_run :
    \A name \in {tasks_to_run[k]} \cup Invoked(tasks_to_run[k]) :
      name \notin Invoked(name)

\* the process has ended by a fatal error, or main has returned and every
\* invocation that printed its entry trace has printed its exit trace and no
\* invocation or branch thread is left (every thread has been joined)
Ended ==
  \/ status = "exit1"
  \/ /\ status = "exit0"
     /\ Live = {}
     /\ \A i \in DOMAIN stdout :
          stdout[i].kind = "enter" => Finished(stdout[i].f)

\* C20: a run that reaches no task that invokes itself comes to its end: a
\* fatal error ends the process, or main returns after every started
\* invocation has printed its "finished" trace and every branch thread has
\* been joined.
C20_RunEnds == NoSelfReference => <>Ended

\* main has returned from a run with a parallel step: the threads were
\* joined and the invocations, the nested ones too, have printed "finished"
C20_Witness ==
  /\ status = "exit0"
  /\ NoSelfReference
  /\ Live = {}
  /\ \E i \in DOMAIN stdout :
       stdout[i].kind = "finished" /\ Len(stdout[i].f) = 4
  /\ Cardinality({i \in DOMAIN stdout : stdout[i].kind = "finished"}) >= 3
====
